---- MODULE Spec2Model ----
(***************************************************************************)
(* Model of Tools/ConvertFromRME.py: the batch driver main(), the albedo   *)
(* lookup find_albedo_path() and the conversion convert() with its helpers *)
(* resize() and calculate_luminance().                                     *)
(*                                                                         *)
(* Representation.                                                         *)
(*  - A path is the tuple <<folder, name, suffix, ext>> of the file        *)
(*    folder/name+suffix+ext; the empty string path "" is <<>>.  All files *)
(*    lie directly in their folder (relative_dirpath "."), the directory   *)
(*    that main() itself creates on the output side.                       *)
(*  - The filesystem fs is a function from the existing paths to their     *)
(*    content.                                                             *)
(*  - An image is [shape |-> <<h, w, c>>, px |-> <<v1, .., vc>>]: a        *)
(*    uniformly coloured image, one value per channel.  A Lanczos filter   *)
(*    has normalised weights, so resampling a uniform image gives the      *)
(*    uniform image of the new size; this is what lets resize() be         *)
(*    modelled.  uint8 images hold 0..255.                                 *)
(*  - float32 values are fixed point numbers with One standing for 1.0.    *)
(*    One is a multiple of 2 * 255, which makes the uint8 -> float ->      *)
(*    uint8 round trip, the product of two byte-derived values followed by *)
(*    the truncating cast, and bias + mult * value for half-integer bias   *)
(*    and mult come out as in float32.  math.sqrt is the integer square    *)
(*    root on that scale.                                                  *)
(***************************************************************************)
EXTENDS Integers, Sequences, FiniteSets, TLC

VARIABLES
    env,     \* sys.argv / working directory: [help, from_exists]
    cfg,     \* the module-level configuration globals (lines 47-54)
    fs,      \* the filesystem: existing path -> content
    walk,    \* os.walk's listing of FROM_FOLDER: sequence of <<name, suffix, ext>>
    pc,      \* position of main(): "start", "copy", "batch", "done"
    i,       \* index of the batch loop in walk
    log,     \* history: one record per convert() call made by main()
    frames,  \* the local state of convert() calls that run step by step
    fs0      \* history: the filesystem when the step-by-step calls started

vars == <<env, cfg, fs, walk, pc, i, log, frames, fs0>>

----------------------------------------------------------------------------
(* Bounds of the model *)

\* longest directory listing of FROM_FOLDER
MaxFiles == 2
\* largest image height and width
MaxDim == 2
\* channel values are drawn from PixelSteps + 1 evenly spaced bytes
PixelSteps == 3

----------------------------------------------------------------------------
(* Program constants *)

FROM_FOLDER == "mat_dev_old"
TO_FOLDER == "mat_dev"
ADDITIONAL_FOLDERS == <<"mat_src", "mat_TEMP">>
ACCEPTED_EXTENSIONS == <<".png", ".tga">>
RESULT_EXTENSION == ".png"

\* the 255.0 of every uint8 <-> float32 conversion
MaxByte == 255
\* fixed point 1.0
One == 20 * MaxByte
\* the luminance weights 0.2126, 0.7152, 0.0722, in ten-thousandths
LumR == 2126
LumG == 7152
LumB == 722
LumScale == 10000
\* the 0.1 of lum.max() / 0.1 is One \div TargetDiv
TargetDiv == 10

Min(a, b) == IF a < b THEN a ELSE b
Max(a, b) == IF a > b THEN a ELSE b

SeqToSet(s) == {s[k] : k \in 1..Len(s)}

----------------------------------------------------------------------------
(* Fixed point arithmetic and the uint8 conversions *)

\* uint8 -> float32: x.astype(np.float32) / 255.0
ToFloat(b) == b * (One \div MaxByte)

\* float32 -> uint8: (x * 255.0).astype(np.uint8); the cast truncates and an
\* out-of-range value wraps around modulo 256
ToByte(v) == ((v * MaxByte) \div One) % (MaxByte + 1)

Mul(a, b) == (a * b) \div One
Div(a, b) == (a * One) \div b

\* np.clip(v, lo, hi)
Clip(v, lo, hi) == IF v < lo THEN lo ELSE IF v > hi THEN hi ELSE v

RECURSIVE SqrtSearch(_, _, _)
SqrtSearch(n, lo, hi) ==
    IF lo >= hi THEN lo
    ELSE LET mid == (lo + hi + 1) \div 2
         IN  IF mid * mid <= n THEN SqrtSearch(n, mid, hi)
                               ELSE SqrtSearch(n, lo, mid - 1)

\* math.sqrt(x) of a fixed point x: the largest r with r*r <= x*One
Sqrt(x) == SqrtSearch(x * One, 0, Min(x * One, 46340))

----------------------------------------------------------------------------
(* Images *)

NoImage == [shape |-> <<0, 0, 0>>, px |-> <<>>]
\* a file that exists and that imageio cannot decode
CorruptFile == [shape |-> <<0, 0, 0>>, px |-> <<0>>]

ToFloatImage(img) == [shape |-> img.shape, px |-> [k \in DOMAIN img.px |-> ToFloat(img.px[k])]]
ToByteImage(img) == [shape |-> img.shape, px |-> [k \in DOMAIN img.px |-> ToByte(img.px[k])]]

\* np.zeros((h, w, 4))
Zeros(h, w) == [shape |-> <<h, w, 4>>, px |-> <<0, 0, 0, 0>>]

\* resize(float_img, new_shape): to uint8, PIL Lanczos resize to
\* new_shape[1] x new_shape[0], back to float
resize(float_img, new_shape) ==
    LET intimg == ToByteImage(float_img)
    IN  ToFloatImage([shape |-> <<new_shape[1], new_shape[2], float_img.shape[3]>>,
                      px |-> intimg.px])

\* calculate_luminance(rgb_array)
calculate_luminance(px) ==
    (LumR * px[1] + LumG * px[2] + LumB * px[3]) \div LumScale

----------------------------------------------------------------------------
(* The filesystem *)

EmptyPath == <<>>

\* os.path.exists(p)
Exists(f, p) == p \in DOMAIN f

\* imageio can read p: the file exists and decodes
Readable(f, p) == Exists(f, p) /\ f[p] # CorruptFile

\* imageio.imsave(p, content): creates or replaces the file
WriteFile(f, p, content) ==
    [q \in (DOMAIN f) \cup {p} |-> IF q = p THEN content ELSE f[q]]

\* os.remove(p) of an existing file
RemoveFile(f, p) == [q \in (DOMAIN f) \ {p} |-> f[q]]

----------------------------------------------------------------------------
(* convert(path_albedo, path_rme, result_path_orm, result_path_emis)       *)
(*                                                                         *)
(* A frame holds the call's arguments and locals; each Step operator is    *)
(* one filesystem access of convert with the computation around it, and    *)
(* maps [fs, fr] to [fs, fr].  fr.pc is the next step, "return" or         *)
(* "raise".  The fields removed, wrote, resized, emis0 and lum only record *)
(* what the call did.                                                      *)

NewFrame(args) ==
    [pc |-> "check_orm", args |-> args,
     orm_is_ok |-> TRUE, emis_is_ok |-> TRUE,
     rme |-> NoImage, albedo |-> NoImage,
     orm |-> NoImage, emis0 |-> NoImage, emis |-> NoImage, lum |-> 0,
     removed |-> {}, wrote |-> {}, resized |-> {}]

StepCheckOrmAlwaysOverwrite(f, fr, c) ==
    IF Exists(f, fr.args.orm)
    THEN [fs |-> f, fr |-> [fr EXCEPT !.pc = "remove_orm"]]
    ELSE [fs |-> f, fr |-> [fr EXCEPT !.pc = "check_emis"]]

\* lines 62-67: the existence test of the ORM target and the skip
StepCheckOrm(f, fr, c) ==
    IF Exists(f, fr.args.orm)
    THEN IF ~c.OVERWRITE_ORM
         THEN [fs |-> f, fr |-> [fr EXCEPT !.orm_is_ok = FALSE, !.pc = "check_emis"]]
         ELSE [fs |-> f, fr |-> [fr EXCEPT !.pc = "remove_orm"]]
    ELSE [fs |-> f, fr |-> [fr EXCEPT !.pc = "check_emis"]]

\* line 68: os.remove(result_path_orm); raises when the file is gone
StepRemoveOrm(f, fr, c) ==
    IF Exists(f, fr.args.orm)
    THEN [fs |-> RemoveFile(f, fr.args.orm),
          fr |-> [fr EXCEPT !.removed = @ \cup {"orm"}, !.pc = "check_emis"]]
    ELSE [fs |-> f, fr |-> [fr EXCEPT !.pc = "raise"]]

StepCheckEmisAlwaysOverwrite(f, fr, c) ==
    IF Exists(f, fr.args.emis)
    THEN [fs |-> f, fr |-> [fr EXCEPT !.pc = "remove_emis"]]
    ELSE [fs |-> f, fr |-> [fr EXCEPT !.pc = "check_albedo"]]

\* lines 70-75
StepCheckEmis(f, fr, c) ==
    IF Exists(f, fr.args.emis)
    THEN IF ~c.OVERWRITE_EMIS
         THEN [fs |-> f, fr |-> [fr EXCEPT !.emis_is_ok = FALSE, !.pc = "check_albedo"]]
         ELSE [fs |-> f, fr |-> [fr EXCEPT !.pc = "remove_emis"]]
    ELSE [fs |-> f, fr |-> [fr EXCEPT !.pc = "check_albedo"]]

\* line 76
StepRemoveEmis(f, fr, c) ==
    IF Exists(f, fr.args.emis)
    THEN [fs |-> RemoveFile(f, fr.args.emis),
          fr |-> [fr EXCEPT !.removed = @ \cup {"emis"}, !.pc = "check_albedo"]]
    ELSE [fs |-> f, fr |-> [fr EXCEPT !.pc = "raise"]]

StepCheckAlbedoKeepEmis(f, fr, c) ==
    IF ~fr.orm_is_ok /\ ~fr.emis_is_ok
    THEN [fs |-> f, fr |-> [fr EXCEPT !.pc = "return"]]
    ELSE [fs |-> f, fr |-> [fr EXCEPT !.pc = "load_rme"]]

\* lines 78-83: no albedo, no emission; nothing to do, return
StepCheckAlbedo(f, fr, c) ==
    LET emis_is_ok == fr.emis_is_ok /\ Exists(f, fr.args.albedo)
    IN  IF ~fr.orm_is_ok /\ ~emis_is_ok
        THEN [fs |-> f, fr |-> [fr EXCEPT !.emis_is_ok = emis_is_ok, !.pc = "return"]]
        ELSE [fs |-> f, fr |-> [fr EXCEPT !.emis_is_ok = emis_is_ok, !.pc = "load_rme"]]

\* lines 85, 88: imread(path_rme), to float; raises when it cannot be read
StepLoadRme(f, fr, c) ==
    IF Readable(f, fr.args.rme)
    THEN [fs |-> f, fr |-> [fr EXCEPT !.rme = ToFloatImage(f[fr.args.rme]),
                                      !.pc = "load_albedo"]]
    ELSE [fs |-> f, fr |-> [fr EXCEPT !.pc = "raise"]]

\* lines 86, 89: imread(path_albedo) if emis_is_ok else a zero placeholder
StepLoadAlbedo(f, fr, c) ==
    IF fr.emis_is_ok
    THEN IF Readable(f, fr.args.albedo)
         THEN [fs |-> f, fr |-> [fr EXCEPT !.albedo = ToFloatImage(f[fr.args.albedo]),
                                           !.pc = "write_orm"]]
         ELSE [fs |-> f, fr |-> [fr EXCEPT !.pc = "raise"]]
    ELSE [fs |-> f,
          fr |-> [fr EXCEPT !.albedo = ToFloatImage(Zeros(fr.rme.shape[1], fr.rme.shape[2])),
                            !.pc = "write_orm"]]

PackChannelNoClip(bias, mult, v) == bias + Mul(mult, v)

\* np.clip(BIAS + MULT * rme[:, :, k], 0.0, 1.0), lines 95-96
PackChannel(bias, mult, v) == Clip(bias + Mul(mult, v), 0, One)

\* lines 93-97: ( 1.0, rme[0], rme[1], 1.0 )
Pack(rme, c) ==
    [shape |-> <<rme.shape[1], rme.shape[2], 4>>,
     px |-> <<One,
              PackChannel(c.ROUGHNESS_BIAS, c.ROUGHNESS_MULT, rme.px[1]),
              PackChannel(c.METALLIC_BIAS, c.METALLIC_MULT, rme.px[2]),
              One>>]

StepWriteOrmUnnamed(f, fr, c) ==
    IF fr.orm_is_ok
    THEN LET orm == Pack(fr.rme, c)
         IN  [fs |-> WriteFile(f, <<TO_FOLDER, "", "_orm", RESULT_EXTENSION>>, ToByteImage(orm)),
              fr |-> [fr EXCEPT !.orm = orm, !.wrote = @ \cup {"orm"}, !.pc = "write_emis"]]
    ELSE [fs |-> f, fr |-> [fr EXCEPT !.pc = "write_emis"]]

\* lines 91-98
StepWriteOrm(f, fr, c) ==
    IF fr.orm_is_ok
    THEN LET orm == Pack(fr.rme, c)
         IN  [fs |-> WriteFile(f, fr.args.orm, ToByteImage(orm)),
              fr |-> [fr EXCEPT !.orm = orm, !.wrote = @ \cup {"orm"}, !.pc = "write_emis"]]
    ELSE [fs |-> f, fr |-> [fr EXCEPT !.pc = "write_emis"]]

AreaGreaterOrEqual(area_a, area_e) == area_a >= area_e
AreaLess(area_a, area_e) == area_a < area_e

\* line 107: area_a > area_e
AreaGreater(area_a, area_e) == area_a > area_e

\* lines 102-112: bring albedo and rme to one size
Reconcile(albedo, rme) ==
    IF albedo.shape = rme.shape
    THEN [albedo |-> albedo, rme |-> rme,
          newsize |-> <<albedo.shape[1], albedo.shape[2]>>, resized |-> {}]
    ELSE LET area_a == albedo.shape[1] * albedo.shape[2]
             area_e == rme.shape[1] * rme.shape[2]
         IN  IF AreaGreater(area_a, area_e)
             THEN LET newsize == <<albedo.shape[1], albedo.shape[2]>>
                  IN  [albedo |-> albedo, rme |-> resize(rme, newsize),
                       newsize |-> newsize, resized |-> {"rme"}]
             ELSE LET newsize == <<rme.shape[1], rme.shape[2]>>
                  IN  [albedo |-> resize(albedo, newsize), rme |-> rme,
                       newsize |-> newsize, resized |-> {"albedo"}]

\* lines 114-117: albedo * clip(rme[2]); the alpha channel is still 0
Compose(albedo, rme, newsize) ==
    LET e == Clip(rme.px[3], 0, One)
    IN  [shape |-> <<newsize[1], newsize[2], 4>>,
         px |-> <<Mul(albedo.px[1], e), Mul(albedo.px[2], e), Mul(albedo.px[3], e), 0>>]

NormalizeTimesNewmax(emis, lummax) ==
    IF lummax > 0
    THEN LET newmax == Sqrt(Div(lummax, One \div TargetDiv))
         IN  [emis EXCEPT !.px = [k \in DOMAIN emis.px |-> Clip(Mul(emis.px[k], newmax), 0, One)]]
    ELSE emis

\* lines 121-123: emis * newmax / lum.max(), clipped; lummax is lum.max()
Normalize(emis, lummax) ==
    IF lummax > 0
    THEN LET newmax == Sqrt(Div(lummax, One \div TargetDiv))
         IN  [emis EXCEPT !.px = [k \in DOMAIN emis.px |->
                                    Clip(Div(Mul(emis.px[k], newmax), lummax), 0, One)]]
    ELSE emis

\* lines 101-126
StepWriteEmis(f, fr, c) ==
    IF fr.emis_is_ok
    THEN LET r     == Reconcile(fr.albedo, fr.rme)
             emis0 == Compose(r.albedo, r.rme, r.newsize)
             lum   == calculate_luminance(emis0.px)
             emis1 == IF c.EMIS_NORMALIZE_TO_ONE THEN Normalize(emis0, lum) ELSE emis0
             emis  == [emis1 EXCEPT !.px[4] = One]
         IN  [fs |-> WriteFile(f, fr.args.emis, ToByteImage(emis)),
              fr |-> [fr EXCEPT !.albedo = r.albedo, !.rme = r.rme,
                                !.resized = r.resized, !.emis0 = emis0, !.lum = lum,
                                !.emis = emis, !.wrote = @ \cup {"emis"}, !.pc = "return"]]
    ELSE [fs |-> f, fr |-> [fr EXCEPT !.pc = "return"]]

Finished(fr) == fr.pc \in {"return", "raise"}

\* the step of convert at fr.pc
Step(f, fr, c) ==
    CASE fr.pc = "check_orm"    -> StepCheckOrm(f, fr, c)
      [] fr.pc = "remove_orm"   -> StepRemoveOrm(f, fr, c)
      [] fr.pc = "check_emis"   -> StepCheckEmis(f, fr, c)
      [] fr.pc = "remove_emis"  -> StepRemoveEmis(f, fr, c)
      [] fr.pc = "check_albedo" -> StepCheckAlbedo(f, fr, c)
      [] fr.pc = "load_rme"     -> StepLoadRme(f, fr, c)
      [] fr.pc = "load_albedo"  -> StepLoadAlbedo(f, fr, c)
      [] fr.pc = "write_orm"    -> StepWriteOrm(f, fr, c)
      [] fr.pc = "write_emis"   -> StepWriteEmis(f, fr, c)

RECURSIVE RunSteps(_, _, _)
RunSteps(f, fr, c) ==
    IF Finished(fr) THEN [fs |-> f, fr |-> fr]
    ELSE LET s == Step(f, fr, c) IN RunSteps(s.fs, s.fr, c)

\* one whole, uninterrupted call of convert
convert(f, args, c) == RunSteps(f, NewFrame(args), c)

----------------------------------------------------------------------------
(* find_albedo_path and main *)

\* lines 131-134: the paths probed for <basename>, in probing order
AlbedoCandidates(basename) ==
    LET folders_to_check == <<FROM_FOLDER>> \o ADDITIONAL_FOLDERS
        n == Len(ACCEPTED_EXTENSIONS)
    IN  [k \in 1..(Len(folders_to_check) * n) |->
            <<folders_to_check[((k - 1) \div n) + 1], basename, "",
              ACCEPTED_EXTENSIONS[((k - 1) % n) + 1]>>]

RECURSIVE Probe(_, _, _, _)
Probe(f, cands, k, tried_paths) ==
    IF k > Len(cands) THEN [path |-> EmptyPath, tried |-> tried_paths]
    ELSE IF Exists(f, cands[k]) THEN [path |-> cands[k], tried |-> tried_paths]
    ELSE Probe(f, cands, k + 1, Append(tried_paths, cands[k]))

\* find_albedo_path(from_folder_abs, relative_dirpath, basename)
find_albedo_path(f, basename) == Probe(f, AlbedoCandidates(basename), 1, <<>>)

\* lines 193-196: the four paths main hands to convert
ConvertArgs(f, basename, ext) ==
    [albedo |-> find_albedo_path(f, basename).path,
     rme    |-> <<FROM_FOLDER, basename, "_rme", ext>>,
     orm    |-> <<TO_FOLDER, basename, "_orm", RESULT_EXTENSION>>,
     emis   |-> <<TO_FOLDER, basename, "_e", RESULT_EXTENSION>>]

Accepted(ext) == ext \in SeqToSet(ACCEPTED_EXTENSIONS)

\* lines 165-179: copy every accepted file that is no _rme file and whose
\* destination does not exist yet
RECURSIVE CopyAll(_, _, _)
CopyAll(f, w, k) ==
    IF k > Len(w) THEN f
    ELSE LET src_f == <<FROM_FOLDER, w[k][1], w[k][2], w[k][3]>>
             dst_f == <<TO_FOLDER, w[k][1], w[k][2], w[k][3]>>
         IN  IF ~Accepted(w[k][3]) THEN CopyAll(f, w, k + 1)
             ELSE IF Exists(f, dst_f) THEN CopyAll(f, w, k + 1)
             ELSE IF w[k][2] # "_rme" THEN CopyAll(WriteFile(f, dst_f, f[src_f]), w, k + 1)
             ELSE CopyAll(f, w, k + 1)

AfterConvertPropagate(raised) == IF raised THEN "exit" ELSE "batch"

\* lines 204-209: try / except Exception: the loop goes on either way
AfterConvert(raised) == "batch"

\* lines 142-162: the help request, the missing input folder; otherwise
\* TO_FOLDER is created if need be, which is why the result paths, all
\* directly in TO_FOLDER, can be written
MainStart ==
    /\ pc = "start"
    /\ pc' = IF env.help THEN "exit"
             ELSE IF ~env.from_exists THEN "exit"
             ELSE "copy"
    /\ UNCHANGED <<env, cfg, fs, walk, i, log, frames, fs0>>

\* lines 165-179
CopyThrough ==
    /\ pc = "copy"
    /\ fs' = CopyAll(fs, walk, 1)
    /\ pc' = "batch"
    /\ i' = 1
    /\ UNCHANGED <<env, cfg, walk, log, frames, fs0>>

\* lines 184-209: one iteration of the batch loop
ProcessFile ==
    /\ pc = "batch"
    /\ i <= Len(walk)
    /\ LET basename == walk[i][1]
           ext      == walk[i][3]
       IN  IF walk[i][2] # "_rme" \/ ~Accepted(ext)
           THEN /\ pc' = "batch"
                /\ UNCHANGED <<fs, log>>
           ELSE LET args == ConvertArgs(fs, basename, ext)
                IN  IF ~Exists(fs, args.rme)
                    THEN /\ pc' = "batch"
                         /\ UNCHANGED <<fs, log>>
                    ELSE LET r == convert(fs, args, cfg)
                         IN  /\ fs' = r.fs
                             /\ log' = Append(log, [file |-> walk[i], pre |-> fs,
                                                    post |-> r.fs, fr |-> r.fr])
                             /\ pc' = AfterConvert(r.fr.pc = "raise")
    /\ i' = i + 1
    /\ UNCHANGED <<env, cfg, walk, frames, fs0>>

\* the loop of line 182 is exhausted
BatchEnd ==
    /\ pc = "batch"
    /\ i > Len(walk)
    /\ pc' = "done"
    /\ UNCHANGED <<env, cfg, fs, walk, i, log, frames, fs0>>

\* a convert call that runs concurrently with another takes its next step
ParStep(p) ==
    /\ pc = "par"
    /\ ~Finished(frames[p])
    /\ LET s == Step(fs, frames[p], cfg)
       IN  /\ fs' = s.fs
           /\ frames' = [frames EXCEPT ![p] = s.fr]
    /\ UNCHANGED <<env, cfg, walk, pc, i, log, fs0>>

----------------------------------------------------------------------------
(* Initial states *)

\* the configuration as the source sets it (lines 47-54)
DefaultCfg ==
    [OVERWRITE_ORM |-> FALSE, ROUGHNESS_BIAS |-> 0, ROUGHNESS_MULT |-> One,
     METALLIC_BIAS |-> 0, METALLIC_MULT |-> One,
     OVERWRITE_EMIS |-> FALSE, EMIS_NORMALIZE_TO_ONE |-> FALSE]

\* the file names that may lie in FROM_FOLDER
FromFiles ==
    {<<"a", "", ".png">>, <<"a", "_rme", ".png">>, <<"a", "_rme", ".tga">>,
     <<"b", "_rme", ".png">>, <<"b", "_rme", ".bmp">>}

\* albedo files that may lie in the additional folders
ExtraAlbedo == {<<"mat_TEMP", "a", "", ".tga">>, <<"mat_src", "b", "", ".png">>}

\* result files that may be there from an earlier run
EarlierResults ==
    {<<TO_FOLDER, "a", "_orm", RESULT_EXTENSION>>, <<TO_FOLDER, "a", "_e", RESULT_EXTENSION>>,
     <<TO_FOLDER, "b", "_orm", RESULT_EXTENSION>>}

RECURSIVE Listings(_)
\* the listings of at most n distinct files, in any order
Listings(n) ==
    IF n = 0 THEN {<<>>}
    ELSE LET prev == Listings(n - 1)
         IN  prev \cup {Append(w, f) : <<w, f>> \in
                          {x \in prev \X FromFiles :
                              Len(x[1]) = n - 1 /\ x[2] \notin SeqToSet(x[1])}}

Levels == {(MaxByte * k) \div PixelSteps : k \in 0..PixelSteps}
Shapes == (1..MaxDim) \X (1..MaxDim) \X {3, 4}

\* the RME and albedo textures of the batch runs, and an earlier result
BatchRme(name, ext) ==
    [shape |-> <<1, 1, 3>>,
     px |-> IF ext = ".tga" THEN <<127, 0, 127>>
            ELSE IF name = "a" THEN <<255, 127, 255>> ELSE <<0, 255, 64>>]
BatchAlbedo == [shape |-> <<1, 1, 4>>, px |-> <<255, 127, 0, 255>>]
EarlierResult == [shape |-> <<1, 1, 4>>, px |-> <<7, 7, 7, 255>>]

\* the filesystem holding the listed files, the extra albedos and the
\* earlier results; corrupt names the RME files that do not decode
BatchFs(w, extra, earlier, corrupt) ==
    LET from == {<<FROM_FOLDER, f[1], f[2], f[3]>> : f \in SeqToSet(w)}
    IN  [p \in from \cup extra \cup earlier |->
            IF p[1] = TO_FOLDER THEN EarlierResult
            ELSE IF p[3] = "_rme"
                 THEN IF <<p[2], p[3], p[4]>> \in corrupt THEN CorruptFile
                      ELSE BatchRme(p[2], p[4])
            ELSE BatchAlbedo]

InitCommon ==
    /\ pc = "start"
    /\ i = 1
    /\ log = <<>>
    /\ frames = <<>>
    /\ fs0 = fs

\* the batch over a small tree, for every overwrite policy
Init ==
    /\ \/ /\ env \in {[help |-> TRUE, from_exists |-> TRUE],
                      [help |-> FALSE, from_exists |-> FALSE]}
          /\ cfg = DefaultCfg
          /\ walk = <<>>
          /\ fs = BatchFs(<<>>, {}, {}, {})
       \/ /\ env = [help |-> FALSE, from_exists |-> TRUE]
          /\ \E oo \in BOOLEAN, oe \in BOOLEAN :
                cfg = [DefaultCfg EXCEPT !.OVERWRITE_ORM = oo, !.OVERWRITE_EMIS = oe]
          /\ walk \in Listings(MaxFiles)
          /\ \E extra \in SUBSET ExtraAlbedo, earlier \in SUBSET EarlierResults,
                corrupt \in SUBSET {<<"a", "_rme", ".tga">>} :
                fs = BatchFs(walk, extra, earlier, corrupt)
    /\ InitCommon

Next == MainStart \/ CopyThrough \/ ProcessFile \/ BatchEnd

Spec == Init /\ [][Next]_vars

----------------------------------------------------------------------------
(* One conversion, for varying images and correction parameters *)

\* the first c channels of a four channel pixel
Channels(px4, c) == [k \in 1..c |-> px4[k]]

Image(shape, px4) == [shape |-> shape, px |-> Channels(px4, shape[3])]

\* roughness / metallic biases and multipliers, in fixed point
BiasValues == {0 - (One \div 2), 0, One \div 2, One}
MultValues == {0 - One, 0, One \div 2, One, 2 * One}

ImageFs(albedo, rme) ==
    [p \in {<<FROM_FOLDER, "a", "", ".png">>, <<FROM_FOLDER, "a", "_rme", ".png">>} |->
        IF p[3] = "_rme" THEN rme ELSE albedo]

InitImage ==
    /\ env = [help |-> FALSE, from_exists |-> TRUE]
    /\ walk = <<<<"a", "", ".png">>, <<"a", "_rme", ".png">>>>
    /\ \/ \E sa \in Shapes, sr \in Shapes, n \in BOOLEAN :
             /\ cfg = [DefaultCfg EXCEPT !.EMIS_NORMALIZE_TO_ONE = n]
             /\ fs = ImageFs(Image(sa, <<255, 127, 0, 255>>), Image(sr, <<127, 255, 255, 255>>))
       \/ \E r \in Levels, g \in Levels, b \in Levels, e \in Levels, n \in BOOLEAN :
             /\ cfg = [DefaultCfg EXCEPT !.EMIS_NORMALIZE_TO_ONE = n]
             /\ fs = ImageFs(Image(<<1, 1, 3>>, <<r, g, b, 255>>),
                             Image(<<1, 1, 3>>, <<255, 255, e, 255>>))
       \/ \E r \in Levels, g \in Levels, rb \in BiasValues, rm \in MultValues,
             mb \in {0, One \div 2}, mm \in {One, 2 * One} :
             /\ cfg = [DefaultCfg EXCEPT !.ROUGHNESS_BIAS = rb, !.ROUGHNESS_MULT = rm,
                                         !.METALLIC_BIAS = mb, !.METALLIC_MULT = mm]
             /\ fs = ImageFs(Image(<<1, 1, 3>>, <<255, 255, 255, 255>>),
                             Image(<<1, 1, 3>>, <<r, g, 0, 255>>))
    /\ InitCommon

SpecImage == InitImage /\ [][Next]_vars

----------------------------------------------------------------------------
(* Two convert calls whose steps interleave *)

Procs == {1, 2}

\* the pairs of RME files converted at the same time: the first pair has
\* different result paths, the second shares them
ParPairs ==
    {<<<<"a", "_rme", ".png">>, <<"b", "_rme", ".png">>>>,
     <<<<"a", "_rme", ".png">>, <<"a", "_rme", ".tga">>>>}

InitPar ==
    /\ env = [help |-> FALSE, from_exists |-> TRUE]
    /\ \E oo \in BOOLEAN, oe \in BOOLEAN :
          cfg = [DefaultCfg EXCEPT !.OVERWRITE_ORM = oo, !.OVERWRITE_EMIS = oe]
    /\ \E pair \in ParPairs :
          /\ walk = pair
          /\ \E extra \in SUBSET (ExtraAlbedo \cup {<<FROM_FOLDER, "a", "", ".png">>}),
                earlier \in SUBSET (EarlierResults \cup {<<TO_FOLDER, "b", "_e", RESULT_EXTENSION>>}) :
                fs = BatchFs(pair, extra, earlier, {})
    /\ frames = [p \in Procs |-> NewFrame(ConvertArgs(fs, walk[p][1], walk[p][3]))]
    /\ pc = "par"
    /\ i = 1
    /\ log = <<>>
    /\ fs0 = fs

NextPar == \E p \in Procs : ParStep(p)

SpecPar == InitPar /\ [][NextPar]_vars

----------------------------------------------------------------------------
(* Properties.  A property about convert speaks of the calls main() made,  *)
(* which log records with the filesystem before (pre) and after (post)     *)
(* each call and the call's final frame (fr).                              *)

Calls == 1..Len(log)

OrmPolicySkips(k) == Exists(log[k].pre, log[k].fr.args.orm) /\ ~cfg.OVERWRITE_ORM
EmisPolicySkips(k) == Exists(log[k].pre, log[k].fr.args.emis) /\ ~cfg.OVERWRITE_EMIS

\* C1 (skip-on-exists): when the ORM output exists and OVERWRITE_ORM is false,
\* a convert call neither deletes nor rewrites it: the file is there after the
\* call with the content it had before; so a second call in a row on the same
\* ORM path leaves the file of the first call as it was.
C1_SkipOnExists ==
    \A k \in Calls :
        LET e == log[k]
            p == e.fr.args.orm
        IN  OrmPolicySkips(k) =>
                /\ Exists(e.post, p)
                /\ e.post[p] = e.pre[p]
                /\ "orm" \notin (e.fr.removed \cup e.fr.wrote)
                /\ (k > 1 /\ log[k - 1].fr.args.orm = p /\ "orm" \in log[k - 1].fr.wrote)
                       => e.post[p] = log[k - 1].post[p]

\* two calls in a row on one ORM path: the first wrote it, the second ran on
\* (it wrote the emission) and had a different RME to pack
C1_Witness ==
    /\ Len(log) = 2
    /\ ~cfg.OVERWRITE_ORM
    /\ log[1].fr.args.orm = log[2].fr.args.orm
    /\ "orm" \in log[1].fr.wrote
    /\ "emis" \in log[2].fr.wrote
    /\ log[2].fr.rme # log[1].fr.rme

AlbedoHW(k) == <<log[k].pre[log[k].fr.args.albedo].shape[1], log[k].pre[log[k].fr.args.albedo].shape[2]>>
RmeHW(k) == <<log[k].pre[log[k].fr.args.rme].shape[1], log[k].pre[log[k].fr.args.rme].shape[2]>>
Area(hw) == hw[1] * hw[2]
Composed(k) == "emis" \in log[k].fr.wrote
AreaTie(k) == Composed(k) /\ AlbedoHW(k) # RmeHW(k) /\ Area(AlbedoHW(k)) = Area(RmeHW(k))

\* C3 as stated (area tie-break): with different height x width and equal
\* area the RME is resized to the albedo's shape, the albedo is not resized,
\* and the emission has the albedo's height and width.
C3_TieResizesRme ==
    \A k \in Calls :
        AreaTie(k) =>
            /\ log[k].fr.resized = {"rme"}
            /\ log[k].fr.emis.shape = <<AlbedoHW(k)[1], AlbedoHW(k)[2], 4>>

\* C3 amended: with different height x width and equal area the albedo is
\* resized to the RME's shape, the RME is not resized, and the emission, in
\* memory and on disk, has the RME's height and width.
C3_TieResizesAlbedo ==
    \A k \in Calls :
        AreaTie(k) =>
            /\ log[k].fr.resized = {"albedo"}
            /\ log[k].fr.rme = ToFloatImage(log[k].pre[log[k].fr.args.rme])
            /\ <<log[k].fr.albedo.shape[1], log[k].fr.albedo.shape[2]>> = RmeHW(k)
            /\ log[k].fr.emis.shape = <<RmeHW(k)[1], RmeHW(k)[2], 4>>
            /\ log[k].post[log[k].fr.args.emis].shape = <<RmeHW(k)[1], RmeHW(k)[2], 4>>

C3_Witness == \E k \in Calls : AreaTie(k)

\* C4 (resolution reconciliation): when the areas differ, exactly the image
\* of the smaller area is resampled, the other is left as loaded, and the
\* emission has the height and width of the larger image and 4 channels.
C4_SmallerIsResampled ==
    \A k \in Calls :
        (Composed(k) /\ Area(AlbedoHW(k)) # Area(RmeHW(k))) =>
            LET e == log[k]
                albedoIsLarger == Area(AlbedoHW(k)) > Area(RmeHW(k))
                larger == IF albedoIsLarger THEN AlbedoHW(k) ELSE RmeHW(k)
            IN  /\ e.fr.resized = IF albedoIsLarger THEN {"rme"} ELSE {"albedo"}
                /\ IF albedoIsLarger
                   THEN e.fr.albedo = ToFloatImage(e.pre[e.fr.args.albedo])
                   ELSE e.fr.rme = ToFloatImage(e.pre[e.fr.args.rme])
                /\ <<e.fr.albedo.shape[1], e.fr.albedo.shape[2]>> = larger
                /\ <<e.fr.rme.shape[1], e.fr.rme.shape[2]>> = larger
                /\ e.fr.emis.shape = <<larger[1], larger[2], 4>>
                /\ e.post[e.fr.args.emis].shape = <<larger[1], larger[2], 4>>

\* an RME larger than the albedo, neither dimension equal
C4_Witness ==
    \E k \in Calls :
        /\ Composed(k)
        /\ Area(AlbedoHW(k)) < Area(RmeHW(k))
        /\ AlbedoHW(k)[1] # RmeHW(k)[1]
        /\ AlbedoHW(k)[2] # RmeHW(k)[2]
        /\ log[k].fr.resized = {"albedo"}

\* C5 (no resize on equal dimensions): when the albedo and the RME have the
\* same height and width the resampler is invoked on neither, whatever their
\* channel counts.
C5_NoResizeOnEqualDims ==
    \A k \in Calls :
        (Composed(k) /\ AlbedoHW(k) = RmeHW(k)) => log[k].fr.resized = {}

\* C6 (clamp invariant): every channel of the packed ORM image is in [0, 1]
\* before the conversion to 8 bit, every stored byte is the truncation of
\* 255 times the channel with no wrap-around, occlusion and alpha are 1, and
\* roughness is clamp(bias + mult * source, 0, 1), likewise metallic.
C6_ClampInvariant ==
    \A k \in Calls :
        "orm" \in log[k].fr.wrote =>
            LET e      == log[k]
                orm    == e.fr.orm
                stored == e.post[e.fr.args.orm]
                src    == ToFloatImage(e.pre[e.fr.args.rme]).px
                rough  == cfg.ROUGHNESS_BIAS + ((cfg.ROUGHNESS_MULT * src[1]) \div One)
                metal  == cfg.METALLIC_BIAS + ((cfg.METALLIC_MULT * src[2]) \div One)
            IN  /\ DOMAIN orm.px = 1..4
                /\ \A ch \in 1..4 :
                      /\ 0 <= orm.px[ch] /\ orm.px[ch] <= One
                      /\ stored.px[ch] \in 0..MaxByte
                      /\ stored.px[ch] * One <= orm.px[ch] * MaxByte
                      /\ orm.px[ch] * MaxByte < (stored.px[ch] + 1) * One
                /\ orm.px[1] = One /\ orm.px[4] = One
                /\ orm.px[2] = Max(0, Min(One, rough))
                /\ orm.px[3] = Max(0, Min(One, metal))

\* bias 0.5, multiplier 2.0, source 1.0: raw 2.5, stored as 1.0
C6_Witness ==
    \E k \in Calls :
        /\ "orm" \in log[k].fr.wrote
        /\ cfg.ROUGHNESS_BIAS = One \div 2
        /\ cfg.ROUGHNESS_MULT = 2 * One
        /\ log[k].pre[log[k].fr.args.rme].px[1] = MaxByte
        /\ log[k].fr.orm.px[2] = One
        /\ log[k].post[log[k].fr.args.orm].px[2] = MaxByte

Normalized(k) == Composed(k) /\ cfg.EMIS_NORMALIZE_TO_ONE

\* sqrt(M / 0.1) for a luminance M, with the check that it is that root
IsRootOfTenM(s, M) == s * s <= 10 * M * One /\ 10 * M * One < (s + 1) * (s + 1)

\* C7 as stated (normalization scale): with normalization on and maximum
\* luminance M > 0 every composed RGB value is multiplied by sqrt(M / 0.1)
\* and clamped to [0, 1]; with M = 0 the composed image is unchanged.
C7_ScaleIsRoot ==
    \A k \in Calls :
        Normalized(k) =>
            LET e == log[k]
                M == e.fr.lum
                s == Sqrt(Div(M, One \div TargetDiv))
            IN  /\ IsRootOfTenM(s, M)
                /\ \A ch \in 1..3 :
                      e.fr.emis.px[ch] =
                          IF M > 0 THEN Min(One, (e.fr.emis0.px[ch] * s) \div One)
                                   ELSE e.fr.emis0.px[ch]

\* C7 amended: with normalization on and maximum luminance M > 0 every
\* composed RGB value is multiplied by sqrt(M / 0.1) / M, that is by newmax
\* and then divided by M, and clamped to [0, 1]; with M = 0 the composed
\* image is unchanged.
C7_ScaleIsRootOverMax ==
    \A k \in Calls :
        Normalized(k) =>
            LET e == log[k]
                M == e.fr.lum
                s == Sqrt(Div(M, One \div TargetDiv))
            IN  /\ IsRootOfTenM(s, M)
                /\ M = (LumR * e.fr.emis0.px[1] + LumG * e.fr.emis0.px[2]
                          + LumB * e.fr.emis0.px[3]) \div LumScale
                /\ \A ch \in 1..3 :
                      e.fr.emis.px[ch] =
                          IF M > 0
                          THEN Min(One, (((e.fr.emis0.px[ch] * s) \div One) * One) \div M)
                          ELSE e.fr.emis0.px[ch]

\* a normalised emission with 0 < M < 1 and a channel that is scaled up and
\* stays below 1
C7_Witness ==
    \E k \in Calls :
        /\ Normalized(k)
        /\ log[k].fr.lum > 0 /\ log[k].fr.lum < One
        /\ \E ch \in 1..3 :
              /\ log[k].fr.emis.px[ch] > log[k].fr.emis0.px[ch]
              /\ log[k].fr.emis.px[ch] < One

\* the files main() must hand to convert: the _rme files with an accepted
\* extension, in listing order
IsCandidate(f) == f[2] = "_rme" /\ Accepted(f[3])
Candidates(w) == SelectSeq(w, IsCandidate)
LogFiles == [k \in Calls |-> log[k].file]

\* C8 (per-file failure isolation): whatever the earlier conversions did
\* (wrote, skipped or raised), the batch loop passes every existing _rme file
\* with an accepted extension to convert exactly once, in listing order, and
\* main() ends only after the last file of the listing: the loop index only
\* ever stands on a file of the listing or just behind the last one.
C8_FailureIsolation ==
    /\ pc \in {"start", "copy", "batch", "done", "exit"}
    /\ pc = "batch" => i \in 1..(Len(walk) + 1)
    /\ pc = "batch" => LogFiles = Candidates(SubSeq(walk, 1, i - 1))
    /\ (pc \in {"done", "exit"} /\ ~env.help /\ env.from_exists) =>
           /\ LogFiles = Candidates(walk)
           /\ pc = "done"
           /\ i = Len(walk) + 1
    /\ \A k \in Calls : Exists(log[k].pre, log[k].fr.args.rme)

\* the first conversion raised, the second was still made and wrote its ORM
C8_Witness ==
    /\ pc = "done"
    /\ Len(log) = 2
    /\ log[1].fr.pc = "raise"
    /\ log[2].fr.pc = "return"
    /\ "orm" \in log[2].fr.wrote

OutputsOf(p) == {frames[p].args.orm, frames[p].args.emis}
DistinctOutputs == OutputsOf(1) \cap OutputsOf(2) = {}

\* the two calls run one after the other, p first
Sequential(p, q) ==
    LET first == convert(fs0, frames[p].args, cfg)
    IN  convert(first.fs, frames[q].args, cfg)

\* C9 (parallel safety on disjoint paths): a convert call deletes and writes
\* only its own two output paths, so when two calls with distinct output
\* paths have both ended, after any interleaving of their steps, every file
\* exists and holds what it holds after the two calls run one after the
\* other, in either order, and each call ends as it does there.
C9_ParallelSafety ==
    (pc = "par" /\ DistinctOutputs) =>
        /\ \A q \in (DOMAIN fs0) \ (OutputsOf(1) \cup OutputsOf(2)) :
              Exists(fs, q) /\ fs[q] = fs0[q]
        /\ DOMAIN fs \subseteq (DOMAIN fs0) \cup OutputsOf(1) \cup OutputsOf(2)
        /\ (\A p \in Procs : Finished(frames[p])) =>
              /\ fs = Sequential(1, 2).fs
              /\ fs = Sequential(2, 1).fs
              /\ frames[2].pc = Sequential(1, 2).fr.pc
              /\ frames[1].pc = Sequential(2, 1).fr.pc
              /\ frames[2].wrote = Sequential(1, 2).fr.wrote
              /\ frames[1].wrote = Sequential(2, 1).fr.wrote

\* both calls ended, both deleted an earlier ORM and wrote a new one
C9_Witness ==
    /\ pc = "par"
    /\ DistinctOutputs
    /\ \A p \in Procs :
          /\ frames[p].pc = "return"
          /\ "orm" \in frames[p].removed
          /\ "orm" \in frames[p].wrote
    /\ "emis" \in frames[1].wrote

\* C10 as stated (output preservation): an ORM or emission output that
\* exists before a convert call exists when the call returns or raises.
C10_OutputsPreserved ==
    \A k \in Calls :
        \A p \in {log[k].fr.args.orm, log[k].fr.args.emis} :
            Exists(log[k].pre, p) => Exists(log[k].post, p)

\* C10 amended: an existing output whose overwrite flag is false is left
\* untouched; an existing output whose overwrite flag is true is deleted
\* first and exists when the call returns or raises only if the call then
\* wrote it, which for the emission needs an existing albedo and for either
\* output needs every image the call loads to be readable.
C10_PreservedUnlessOverwritten ==
    \A k \in Calls :
        LET e       == log[k]
            a       == e.fr.args
            emisDue == ~EmisPolicySkips(k) /\ Exists(e.pre, a.albedo)
            loads   == Readable(e.pre, a.rme) /\ (emisDue => Readable(e.pre, a.albedo))
        IN  /\ OrmPolicySkips(k) => (Exists(e.post, a.orm) /\ e.post[a.orm] = e.pre[a.orm])
            /\ EmisPolicySkips(k) => (Exists(e.post, a.emis) /\ e.post[a.emis] = e.pre[a.emis])
            /\ (Exists(e.pre, a.orm) /\ cfg.OVERWRITE_ORM) =>
                   /\ "orm" \in e.fr.removed
                   /\ Exists(e.post, a.orm) <=> "orm" \in e.fr.wrote
            /\ (Exists(e.pre, a.emis) /\ cfg.OVERWRITE_EMIS) =>
                   /\ "emis" \in e.fr.removed
                   /\ Exists(e.post, a.emis) <=> "emis" \in e.fr.wrote
            /\ "orm" \in e.fr.wrote <=> (~OrmPolicySkips(k) /\ loads)
            /\ "emis" \in e.fr.wrote <=> (emisDue /\ loads)

\* an emission file that was there is gone: it was to be overwritten and
\* there is no albedo
C10_Witness ==
    \E k \in Calls :
        /\ cfg.OVERWRITE_EMIS
        /\ Exists(log[k].pre, log[k].fr.args.emis)
        /\ ~Exists(log[k].pre, log[k].fr.args.albedo)
        /\ ~Exists(log[k].post, log[k].fr.args.emis)
        /\ log[k].fr.pc = "return"

====
